---------------------------- MODULE Spec2Model ----------------------------
(***************************************************************************)
(* Model of lvgl_c_array_to_bin_and_image.py: the LVGL v8 binary image     *)
(* container (32-bit packed header + payload), the two encoders that build *)
(* it from extracted C-array icons, and the decoder that resolves a pixel  *)
(* format and turns the payload into a raster.                             *)
(*                                                                         *)
(* Python sequences are 0-indexed; At and From below keep the source's     *)
(* indices.  Python's None is the integer None, so that it can be compared *)
(* with the numbers it replaces.                                           *)
(***************************************************************************)
EXTENDS Integers, Sequences, FiniteSets, TLC

VARIABLES
    pc,           \* position of the run: "start", "encoded", "parsed", "done", "failed"
    path,         \* which producer built binary_data: "zmk", "legacy", "analyze", "none"
    icon_data,    \* the extracted icon handed to the encoder
    binary_data,  \* the container: header bytes followed by the payload
    header,       \* <<color_format, width, height>> as returned by parse_lvgl_binary_header
    conv,         \* what convert_lvgl_binary_to_png did: format, decoder, result, raster
    walk_files,   \* the source files of a directory walk, in the order of the walk
    walk_index,   \* number of files of the walk that the loop has taken
    walk_status,  \* "idle", "walking", "finished", or "raised": an exception left the loop
    results,      \* per file taken: what process_single_file did with it
    create_png,   \* the create_png argument of the walk
    events        \* the file writes and PNG conversions of the walk, in program order

codec_vars == <<pc, path, icon_data, binary_data, header, conv>>

batch_vars == <<walk_files, walk_index, walk_status, results, create_png, events>>

vars == <<pc, path, icon_data, binary_data, header, conv,
          walk_files, walk_index, walk_status, results, create_png, events>>

-----------------------------------------------------------------------------
(* Bounds of the explored inputs *)

\* widths and heights 0..MaxDim are decoded pixel by pixel
MaxDim == 2
\* number of bitmap bytes that follow the (possibly truncated) palette prefix
MaxBitmapLen == 4
\* rasters larger than this are encoded and header-parsed but not decoded
MaxPixels == 196

-----------------------------------------------------------------------------
(* Python integer and sequence primitives *)

None == -1

\* 2 ** n
Pow2(n) == 2 ^ n

\* a >> n
Shr(a, n) == a \div Pow2(n)

\* a << n
Shl(a, n) == a * Pow2(n)

RECURSIVE BitAnd(_, _)
\* a & b
BitAnd(a, b) ==
    IF a = 0 \/ b = 0 THEN 0
    ELSE (IF a % 2 = 1 /\ b % 2 = 1 THEN 1 ELSE 0) + 2 * BitAnd(a \div 2, b \div 2)

RECURSIVE BitOr(_, _)
\* a | b
BitOr(a, b) ==
    IF a = 0 THEN b
    ELSE IF b = 0 THEN a
    ELSE (IF a % 2 = 1 \/ b % 2 = 1 THEN 1 ELSE 0) + 2 * BitOr(a \div 2, b \div 2)

\* Python integers are unbounded; the header word needs bit 31, which the
\* model's integers do not have.  A word is the integer as its bits, least
\* significant first.
WordBits == 32

\* the integer n (0 <= n < 2^31) as a word
ToWord(n) == [ i \in 0 .. (WordBits - 1) |-> IF i < 31 THEN (n \div Pow2(i)) % 2 ELSE 0 ]

RECURSIVE WordSum(_, _)
WordSum(a, i) == IF i >= WordBits THEN 0
                 ELSE IF a[i] = 1 THEN Pow2(i) + WordSum(a, i + 1)
                 ELSE WordSum(a, i + 1)

\* the word a as an integer (a < 2^31)
ToInt(a) == WordSum(a, 0)

\* a & b on words
WAnd(a, b) == [ i \in DOMAIN a |-> IF a[i] = 1 /\ b[i] = 1 THEN 1 ELSE 0 ]

\* a | b on words
WOr(a, b) == [ i \in DOMAIN a |-> IF a[i] = 1 \/ b[i] = 1 THEN 1 ELSE 0 ]

\* a << n on words
WShl(a, n) == [ i \in DOMAIN a |-> IF i >= n THEN a[i - n] ELSE 0 ]

\* a >> n on words
WShr(a, n) == [ i \in DOMAIN a |-> IF i + n < WordBits THEN a[i + n] ELSE 0 ]

\* s[i] with Python's 0-based index
At(s, i) == s[i + 1]

\* s[i:]
From(s, i) == SubSeq(s, i + 1, Len(s))

\* s[i:j]
Slice(s, i, j) == SubSeq(s, i + 1, IF j < Len(s) THEN j ELSE Len(s))

\* range(n)
Range(n) == 0 .. (n - 1)


-----------------------------------------------------------------------------
(* Format tokens and the header codec *)

KnownTokens ==
    { "LV_IMG_CF_TRUE_COLOR", "LV_IMG_CF_TRUE_COLOR_ALPHA",
      "LV_IMG_CF_INDEXED_1BIT", "LV_IMG_CF_INDEXED_2BIT",
      "LV_IMG_CF_INDEXED_4BIT", "LV_IMG_CF_INDEXED_8BIT" }

\* format_map of create_binary_from_icon_data
format_map ==
    [ t \in KnownTokens |->
        CASE t = "LV_IMG_CF_INDEXED_1BIT"     -> 7
          [] t = "LV_IMG_CF_INDEXED_2BIT"     -> 8
          [] t = "LV_IMG_CF_INDEXED_4BIT"     -> 9
          [] t = "LV_IMG_CF_INDEXED_8BIT"     -> 10
          [] t = "LV_IMG_CF_TRUE_COLOR"       -> 4
          [] t = "LV_IMG_CF_TRUE_COLOR_ALPHA" -> 5 ]

\* format_map.get with true colour as the default
format_map_get_default_true_color(token) ==
    IF token \in DOMAIN format_map THEN format_map[token] ELSE 4

\* format_map.get(token, 7)
format_map_get(token) ==
    IF token \in DOMAIN format_map THEN format_map[token] ELSE 7

\* the if/elif chain of convert_image_array_file_to_bin; None for its else branch
img_header_cf_val(img_cf) ==
    CASE img_cf = "LV_IMG_CF_TRUE_COLOR_ALPHA" -> 5
      [] img_cf = "LV_IMG_CF_TRUE_COLOR"       -> 4
      [] img_cf = "LV_IMG_CF_INDEXED_1BIT"     -> 7
      [] img_cf = "LV_IMG_CF_INDEXED_2BIT"     -> 8
      [] img_cf = "LV_IMG_CF_INDEXED_4BIT"     -> 9
      [] img_cf = "LV_IMG_CF_INDEXED_8BIT"     -> 10
      [] OTHER                                 -> None

\* header_32bit with the width masked to 12 bits
header_32bit_width_12_bits(cf, w, h) ==
    WOr(WOr(WOr(WOr(ToWord(BitAnd(cf, 31)), WShl(ToWord(0), 5)), WShl(ToWord(0), 8)),
            WShl(ToWord(BitAnd(w, 4095)), 10)),
        WShl(ToWord(BitAnd(h, 2047)), 21))

\* header_32bit of both encoders
header_32bit(cf, w, h) ==
    WOr(WOr(WOr(WOr(ToWord(BitAnd(cf, 31)), WShl(ToWord(0), 5)), WShl(ToWord(0), 8)),
            WShl(ToWord(BitAnd(w, 2047)), 10)),
        WShl(ToWord(BitAnd(h, 2047)), 21))

\* pack_binary_img with the header written most significant byte first
pack_binary_img_big_endian(hdr, c_array) ==
    [ i \in 1 .. (Len(c_array) + 4) |->
        IF i = 1 THEN ToInt(WAnd(WShr(hdr, 24), ToWord(255)))
        ELSE IF i = 2 THEN ToInt(WAnd(WShr(hdr, 16), ToWord(255)))
        ELSE IF i = 3 THEN ToInt(WAnd(WShr(hdr, 8), ToWord(255)))
        ELSE IF i = 4 THEN ToInt(WAnd(hdr, ToWord(255)))
        ELSE At(c_array, i - 5) ]

\* binary_img: 4 header bytes, least significant first, then the array copied
pack_binary_img(hdr, c_array) ==
    [ i \in 1 .. (Len(c_array) + 4) |->
        IF i = 1 THEN ToInt(WAnd(hdr, ToWord(255)))
        ELSE IF i = 2 THEN ToInt(WAnd(WShr(hdr, 8), ToWord(255)))
        ELSE IF i = 3 THEN ToInt(WAnd(WShr(hdr, 16), ToWord(255)))
        ELSE IF i = 4 THEN ToInt(WAnd(WShr(hdr, 24), ToWord(255)))
        ELSE At(c_array, i - 5) ]

\* create_binary_from_icon_data whose copy loop stops one byte early: the last
\* byte of binary_img keeps the 0 of bytearray(len(c_array) + 4)
create_binary_short_copy(icon) ==
    LET full == pack_binary_img(
                    header_32bit(format_map_get(icon.format), icon.width, icon.height),
                    icon.data)
    IN  [ i \in 1 .. Len(full) |-> IF i > 4 /\ i = Len(full) THEN 0 ELSE full[i] ]

\* create_binary_from_icon_data(icon_data)
create_binary_from_icon_data(icon) ==
    pack_binary_img(
        header_32bit(format_map_get(icon.format), icon.width, icon.height),
        icon.data)

\* the single-icon path of convert_image_array_file_to_bin, from the parsed
\* descriptor fields on; ok = FALSE is its "return None"
convert_image_array_file_to_bin(icon) ==
    IF img_header_cf_val(icon.format) = None
    THEN [ok |-> FALSE, binary |-> << >>]
    ELSE [ok |-> TRUE,
          binary |-> pack_binary_img(
              header_32bit(img_header_cf_val(icon.format), icon.width, icon.height),
              icon.data)]

\* int.from_bytes(b, byteorder='little'), as a word: byte k holds bits 8k .. 8k+7
int_from_bytes_little(b) ==
    [ i \in 0 .. (WordBits - 1) |->
        IF i \div 8 < Len(b) THEN (At(b, i \div 8) \div Pow2(i % 8)) % 2 ELSE 0 ]

\* parse_lvgl_binary_header reading the width as a 10-bit field
parse_header_width_10_bits(data) ==
    IF Len(data) < 4 THEN <<None, None, None>>
    ELSE LET hdr == int_from_bytes_little(Slice(data, 0, 4))
         IN  << ToInt(WAnd(hdr, ToWord(31))),
                ToInt(WAnd(WShr(hdr, 10), ToWord(1023))),
                ToInt(WAnd(WShr(hdr, 21), ToWord(2047))) >>

\* parse_lvgl_binary_header that accepts 3 bytes as a header
parse_header_min_3_bytes(data) ==
    IF Len(data) < 3 THEN <<None, None, None>>
    ELSE LET hdr == int_from_bytes_little(Slice(data, 0, 4))
         IN  << ToInt(WAnd(hdr, ToWord(31))),
                ToInt(WAnd(WShr(hdr, 10), ToWord(2047))),
                ToInt(WAnd(WShr(hdr, 21), ToWord(2047))) >>

\* parse_lvgl_binary_header that gives up when the always_zero bits 5..7 are set
parse_header_rejects_always_zero(data) ==
    IF Len(data) < 4 THEN <<None, None, None>>
    ELSE LET hdr == int_from_bytes_little(Slice(data, 0, 4))
         IN  IF ToInt(WAnd(WShr(hdr, 5), ToWord(7))) # 0 THEN <<None, None, None>>
             ELSE << ToInt(WAnd(hdr, ToWord(31))),
                     ToInt(WAnd(WShr(hdr, 10), ToWord(2047))),
                     ToInt(WAnd(WShr(hdr, 21), ToWord(2047))) >>

\* parse_lvgl_binary_header(binary_data): (color_format, width, height)
parse_lvgl_binary_header(data) ==
    IF Len(data) < 4 THEN <<None, None, None>>
    ELSE LET hdr == int_from_bytes_little(Slice(data, 0, 4))
         IN  << ToInt(WAnd(hdr, ToWord(31))),
                ToInt(WAnd(WShr(hdr, 10), ToWord(2047))),
                ToInt(WAnd(WShr(hdr, 21), ToWord(2047))) >>

-----------------------------------------------------------------------------
(* Pixel-format decoders.  Each returns [status, mode, img]:                *)
(*   status "false"  - the decoder returned False before building a raster  *)
(*   status "raise"  - an exception left the decoder (IndexError, ValueError)*)
(*   status "img"    - img_array was filled and handed to Image.fromarray   *)
(* img is img_array: rows y of pixels x, as np.zeros((height, width, n)).   *)

NoImg == << >>

\* one pixel of np.zeros((height, width, channels), dtype=np.uint8): a pixel the
\* decoding loop never assigns keeps this value
np_zeros(channels) == [ c \in 1 .. channels |-> 0 ]

\* palette entry k of the 1-bit decoder: r, g, b, a = bytes 0, 1, 2, 3 of the entry
palette_1bit(image_data, k) ==
    << At(image_data, 4 * k), At(image_data, 4 * k + 1),
       At(image_data, 4 * k + 2), At(image_data, 4 * k + 3) >>

\* palette entry k of the 2/4/8-bit decoders: b, g, r, a = image_data[offset:offset+4]
\* and palette.append((r, g, b, a))
palette_bgra(image_data, k) ==
    << At(image_data, 4 * k + 2), At(image_data, 4 * k + 1),
       At(image_data, 4 * k), At(image_data, 4 * k + 3) >>

\* row_bits with the two bytes of the row combined low byte first
row_bits_low_byte_first(bitmap_data, y) ==
    BitOr(Shl(At(bitmap_data, 2 * y + 1), 8), At(bitmap_data, 2 * y))

\* row_bits of row y in the 1-bit decoder: (byte1 << 8) | byte2
row_bits(bitmap_data, y) ==
    BitOr(Shl(At(bitmap_data, 2 * y), 8), At(bitmap_data, 2 * y + 1))

\* the "if row_start + 1 < len(bitmap_data)" test of the 1-bit decoder
row_has_data(bitmap_data, y) == 2 * y + 1 < Len(bitmap_data)

\* pixel_value with the row read least significant bit first
pixel_value_1bit_lsb_first(bitmap_data, x, y) ==
    BitAnd(Shr(row_bits(bitmap_data, y), x), 1)

\* pixel_value of pixel (x, y) in the 1-bit decoder, for a row that has data
pixel_value_1bit(bitmap_data, x, y) ==
    BitAnd(Shr(row_bits(bitmap_data, y), 15 - x), 1)

\* convert_indexed_1bit_to_png_fixed that paints the pixels from x = 16 on with
\* palette entry 0 instead of shifting by a negative count
convert_indexed_1bit_wide_as_background(image_data, width, height) ==
    IF Len(image_data) < 8
    THEN [status |-> "false", mode |-> "I1", img |-> NoImg]
    ELSE LET bitmap_data == From(image_data, 8)
         IN  [status |-> "img", mode |-> "I1",
              img |-> [ y \in Range(height) |-> [ x \in Range(width) |->
                  IF row_has_data(bitmap_data, y) /\ x <= 15
                  THEN palette_1bit(image_data, pixel_value_1bit(bitmap_data, x, y))
                  ELSE palette_1bit(image_data, 0) ] ] ]

\* convert_indexed_1bit_to_png_fixed
convert_indexed_1bit_to_png_fixed(image_data, width, height) ==
    IF Len(image_data) < 8
    THEN [status |-> "false", mode |-> "I1", img |-> NoImg]
    ELSE LET bitmap_data == From(image_data, 8)
         IN  \* 15 - x is negative from x = 16 on: ValueError (negative shift count)
             IF \E y \in Range(height) : row_has_data(bitmap_data, y) /\ width > 16
             THEN [status |-> "raise", mode |-> "I1", img |-> NoImg]
             ELSE [status |-> "img", mode |-> "I1",
                   img |-> [ y \in Range(height) |-> [ x \in Range(width) |->
                       IF row_has_data(bitmap_data, y)
                       THEN palette_1bit(image_data, pixel_value_1bit(bitmap_data, x, y))
                       ELSE palette_1bit(image_data, 0) ] ] ]

\* pixel_value of pixel number pixel_index in the 2-bit decoder
pixel_value_2bit(bitmap_data, pixel_index) ==
    BitAnd(Shr(At(bitmap_data, pixel_index \div 4), 6 - ((pixel_index % 4) * 2)), 3)

\* convert_indexed_2bit_to_png
convert_indexed_2bit_to_png(image_data, width, height) ==
    IF Len(image_data) < 16
    THEN [status |-> "false", mode |-> "I2", img |-> NoImg]
    ELSE LET bitmap_data == From(image_data, 16)
         IN  [status |-> "img", mode |-> "I2",
              img |-> [ y \in Range(height) |-> [ x \in Range(width) |->
                  LET pixel_index == y * width + x
                  IN  IF pixel_index \div 4 < Len(bitmap_data)
                      THEN palette_bgra(image_data, pixel_value_2bit(bitmap_data, pixel_index))
                      ELSE np_zeros(4) ] ] ]

\* pixel_value of pixel number pixel_index in the 4-bit decoder
pixel_value_4bit(bitmap_data, pixel_index) ==
    IF pixel_index % 2 = 0
    THEN BitAnd(At(bitmap_data, pixel_index \div 2), 15)
    ELSE BitAnd(Shr(At(bitmap_data, pixel_index \div 2), 4), 15)

\* convert_indexed_4bit_to_png that leaves a pixel without bitmap data at zero
convert_indexed_4bit_guarded(image_data, width, height) ==
    IF Len(image_data) < 64
    THEN [status |-> "false", mode |-> "I4", img |-> NoImg]
    ELSE LET bitmap_data == From(image_data, 64)
         IN  [status |-> "img", mode |-> "I4",
              img |-> [ y \in Range(height) |-> [ x \in Range(width) |->
                  IF (y * width + x) \div 2 < Len(bitmap_data)
                  THEN palette_bgra(image_data,
                                    pixel_value_4bit(bitmap_data, y * width + x))
                  ELSE np_zeros(4) ] ] ]

\* convert_indexed_4bit_to_png
convert_indexed_4bit_to_png(image_data, width, height) ==
    IF Len(image_data) < 64
    THEN [status |-> "false", mode |-> "I4", img |-> NoImg]
    ELSE LET bitmap_data == From(image_data, 64)
         IN  \* bitmap_data[byte_index] is read unguarded: IndexError
             IF \E y \in Range(height), x \in Range(width) :
                    (y * width + x) \div 2 >= Len(bitmap_data)
             THEN [status |-> "raise", mode |-> "I4", img |-> NoImg]
             ELSE [status |-> "img", mode |-> "I4",
                   img |-> [ y \in Range(height) |-> [ x \in Range(width) |->
                       palette_bgra(image_data,
                                    pixel_value_4bit(bitmap_data, y * width + x)) ] ] ]

\* convert_indexed_8bit_to_png
convert_indexed_8bit_to_png(image_data, width, height) ==
    IF Len(image_data) < 1024
    THEN [status |-> "false", mode |-> "I8", img |-> NoImg]
    ELSE LET bitmap_data == From(image_data, 1024)
         IN  [status |-> "img", mode |-> "I8",
              img |-> [ y \in Range(height) |-> [ x \in Range(width) |->
                  LET pixel_index == y * width + x
                  IN  IF pixel_index < Len(bitmap_data)
                      THEN palette_bgra(image_data, At(bitmap_data, pixel_index))
                      ELSE np_zeros(4) ] ] ]

\* the RGB565 pixel without the filling of the lower bits
rgb565_pixel_no_fill(byte1, byte2) ==
    << Shl(Shr(byte2, 3), 3),
       Shl(BitOr(Shr(byte1, 5), Shl(BitAnd(byte2, 7), 3)), 2),
       Shl(BitAnd(byte1, 31), 3) >>

\* the RGB565 pixel with the red field taken from the low bits of the word
rgb565_pixel_red_low(byte1, byte2) ==
    LET r == Shl(BitAnd(byte1, 31), 3)
        g == Shl(BitOr(Shr(byte1, 5), Shl(BitAnd(byte2, 7), 3)), 2)
        b == Shl(Shr(byte2, 3), 3)
    IN  << BitOr(r, Shr(r, 5)), BitOr(g, Shr(g, 6)), BitOr(b, Shr(b, 5)) >>

\* one RGB565 pixel from its two bytes: [r, g, b] after the low bits are filled
rgb565_pixel(byte1, byte2) ==
    LET b == Shl(BitAnd(byte1, 31), 3)
        g == Shl(BitOr(Shr(byte1, 5), Shl(BitAnd(byte2, 7), 3)), 2)
        r == Shl(Shr(byte2, 3), 3)
    IN  << BitOr(r, Shr(r, 5)), BitOr(g, Shr(g, 6)), BitOr(b, Shr(b, 5)) >>

\* the RGB565 loops of convert_true_color_to_png_fixed (first and last branch)
rgb565_img(image_data, width, height) ==
    [ y \in Range(height) |-> [ x \in Range(width) |->
        LET pixel_index == (y * width + x) * 2
        IN  IF pixel_index + 1 < Len(image_data)
            THEN rgb565_pixel(At(image_data, pixel_index), At(image_data, pixel_index + 1))
            ELSE np_zeros(3) ] ]

\* the RGB888 loop of convert_true_color_to_png_fixed
rgb888_img(image_data, width, height) ==
    [ y \in Range(height) |-> [ x \in Range(width) |->
        LET pixel_index == (y * width + x) * 3
        IN  IF pixel_index + 2 < Len(image_data)
            THEN << At(image_data, pixel_index), At(image_data, pixel_index + 1),
                    At(image_data, pixel_index + 2) >>
            ELSE np_zeros(3) ] ]

\* which of its three branches convert_true_color_to_png_fixed takes
true_color_mode(actual_size, width, height) ==
    LET expected_rgb565 == width * height * 2
        expected_rgb888 == width * height * 3
    IN  IF actual_size >= expected_rgb565 /\ actual_size < expected_rgb888 THEN "RGB565"
        ELSE IF actual_size >= expected_rgb888 THEN "RGB888"
        ELSE "RGB565"

\* convert_true_color_to_png_fixed
convert_true_color_to_png_fixed(image_data, width, height) ==
    LET mode == true_color_mode(Len(image_data), width, height)
    IN  \* the debug print reads img_array[0, x] for x in range(min(4, width))
        IF height = 0 /\ width > 0
        THEN [status |-> "raise", mode |-> mode, img |-> NoImg]
        ELSE [status |-> "img", mode |-> mode,
              img |-> IF mode = "RGB888" THEN rgb888_img(image_data, width, height)
                      ELSE rgb565_img(image_data, width, height)]

\* convert_true_color_alpha_to_png_fixed
convert_true_color_alpha_to_png_fixed(image_data, width, height) ==
    IF Len(image_data) < width * height * 4
    THEN [status |-> "false", mode |-> "RGBA", img |-> NoImg]
    ELSE [status |-> "img", mode |-> "RGBA",
          img |-> [ y \in Range(height) |-> [ x \in Range(width) |->
              LET pixel_index == (y * width + x) * 4
              IN  IF pixel_index + 3 < Len(image_data)
                  THEN << At(image_data, pixel_index), At(image_data, pixel_index + 1),
                          At(image_data, pixel_index + 2), At(image_data, pixel_index + 3) >>
                  ELSE np_zeros(4) ] ] ]

-----------------------------------------------------------------------------
(* Format resolver and dispatch of convert_lvgl_binary_to_png *)

\* actual_format without the RGB888 size test
actual_format_without_rgb888(color_format, n, width, height) ==
    IF n = width * height * 2 THEN 4
    ELSE IF n = width * height * 4 THEN 5
    ELSE color_format

\* actual_format: the declared format unless the payload length equals a true-colour size
actual_format(color_format, n, width, height) ==
    IF n = width * height * 2 THEN 4
    ELSE IF n = width * height * 3 THEN 4
    ELSE IF n = width * height * 4 THEN 5
    ELSE color_format

\* dispatch on the resolved format alone
dispatch_on_actual_format(actual, color_format) ==
    IF actual = 7 THEN "indexed_1bit"
    ELSE IF actual = 8 THEN "indexed_2bit"
    ELSE IF actual = 9 THEN "indexed_4bit"
    ELSE IF actual = 10 THEN "indexed_8bit"
    ELSE IF actual = 4 THEN "true_color"
    ELSE IF actual = 5 THEN "true_color_alpha"
    ELSE "true_color"

\* the if/elif chain in the try block: which decoder is called
dispatch(actual, color_format) ==
    IF actual = 7 \/ color_format = 7 THEN "indexed_1bit"
    ELSE IF actual = 8 THEN "indexed_2bit"
    ELSE IF actual = 9 THEN "indexed_4bit"
    ELSE IF actual = 10 THEN "indexed_8bit"
    ELSE IF actual = 4 THEN "true_color"
    ELSE IF actual = 5 THEN "true_color_alpha"
    ELSE "true_color"

\* the call made by the chosen branch
run_decoder(decoder, image_data, width, height) ==
    CASE decoder = "indexed_1bit" -> convert_indexed_1bit_to_png_fixed(image_data, width, height)
      [] decoder = "indexed_2bit" -> convert_indexed_2bit_to_png(image_data, width, height)
      [] decoder = "indexed_4bit" -> convert_indexed_4bit_to_png(image_data, width, height)
      [] decoder = "indexed_8bit" -> convert_indexed_8bit_to_png(image_data, width, height)
      [] decoder = "true_color_alpha" ->
             convert_true_color_alpha_to_png_fixed(image_data, width, height)
      [] OTHER -> convert_true_color_to_png_fixed(image_data, width, height)

\* Image.fromarray(...) and img.save(output_file): an image with both dimensions
\* positive is written; what the imaging library does with an empty image is not
\* decided by this program, so both outcomes (saved, exception) are possible
save_outcomes(width, height) ==
    IF width > 0 /\ height > 0 THEN {TRUE} ELSE BOOLEAN

NoConv ==
    [called |-> FALSE, ok |-> FALSE, actual_format |-> None, decoder |-> "none",
     status |-> "none", mode |-> "none", img |-> NoImg]

\* convert_lvgl_binary_to_png(binary_data, ...) once the header is parsed; saved is
\* the outcome of img.save.  ok is the value returned.
convert_lvgl_binary_to_png(data, hdr, saved) ==
    IF hdr[1] = None
    THEN [NoConv EXCEPT !.called = TRUE]
    ELSE LET image_data == From(data, 4)
             actual == actual_format(hdr[1], Len(image_data), hdr[2], hdr[3])
             decoder == dispatch(actual, hdr[1])
             r == run_decoder(decoder, image_data, hdr[2], hdr[3])
         IN  [called |-> TRUE,
              ok |-> (r.status = "img" /\ saved),
              actual_format |-> actual,
              decoder |-> decoder,
              status |-> r.status,
              mode |-> r.mode,
              img |-> r.img]

-----------------------------------------------------------------------------
(* Explored inputs *)

Tokens == KnownTokens \cup { "LV_IMG_CF_RAW" }

\* byte values of the bitmap part: 0xE4 (bits 11100100: crumbs 3,2,1,0, nibbles
\* E,4), 0x1B (bits 00011011), 0x00 and 0xFF
ByteCycle == << 228, 27, 0, 255 >>

\* n bitmap bytes: the cycle above, started at its k-th value
Pattern(k, n) == [ i \in 1 .. n |-> ByteCycle[((i - 1 + k) % Len(ByteCycle)) + 1] ]

\* palette prefix of n bytes; the four bytes of every entry differ
PalPrefix(n) == [ i \in 1 .. n |-> (7 * i + 3) % 256 ]

\* a complete palette of Indexed1/2/4/8 (8, 16, 64, 1024 bytes), or a shorter prefix
PaletteLens == { 0, 4, 8, 16, 64, 1024 }

Bitmaps == { Pattern(k, n) : k \in 0 .. (Len(ByteCycle) - 1), n \in 0 .. MaxBitmapLen }

SmallDims == 0 .. MaxDim

\* dimensions around the 11-bit field limit
LargeDims == { 1023, 1024, 2047, 2048, 2049, 4095 }

\* widths around the 16 bits that the 1-bit decoder reads per row
WideWidths == { 14, 16, 17 }

\* an extracted icon: declared format token, declared dimensions, array bytes
Icon(t, w, h, d) == [format |-> t, width |-> w, height |-> h, data |-> d]

\* the explored icons: every payload with small dimensions; rows of 14, 16 and
\* 17 pixels behind a complete two-entry palette; dimensions around the field
\* limit with a two-byte array
Icons ==
    { Icon(t, w, h, PalPrefix(n) \o bm) :
          t \in Tokens, w \in SmallDims, h \in SmallDims, n \in PaletteLens, bm \in Bitmaps }
    \cup { Icon(t, w, h, PalPrefix(8) \o bm) :
          t \in Tokens, w \in WideWidths, h \in SmallDims, bm \in Bitmaps }
    \cup { Icon(t, w, h, << 228, 27 >>) :
          t \in Tokens, w \in LargeDims, h \in LargeDims }

NoIcon == [format |-> "", width |-> 0, height |-> 0, data |-> << >>]

\* format codes that no encoder of this program writes, and reserved bits 5..9
RawFormats == { 0, 6, 31 }

RawReserved == { 0, 5 }

\* a header word as a file may hold it: any format code, reserved bits set or not
RawHeaderWord(cf, rs, w, h) ==
    WOr(ToWord(cf + 32 * rs), WOr(WShl(ToWord(w), 10), WShl(ToWord(h), 21)))

\* the 14 x 14 Indexed1 file cmd.bin: header 07 38 C0 01, palette FF FF FF FF
\* 00 00 00 FF, then 14 rows of two bytes
cmd_bin ==
    << 7, 56, 192, 1,   255, 255, 255, 255,   0, 0, 0, 255,
       0, 0,   0, 0,   24, 96,   36, 144,   36, 144,   31, 224,   4, 128,
       4, 128,   31, 224,   36, 144,   36, 144,   24, 96,   0, 0,   0, 0 >>

\* files cut inside the header
ShortFiles == { << >>, << 7 >>, << 7, 56 >>, << 7, 56, 192 >> }

-----------------------------------------------------------------------------
(* The state machine *)

Init ==
    /\ pc = "start"
    /\ path = "none"
    /\ icon_data = NoIcon
    /\ binary_data = << >>
    /\ header = << None, None, None >>
    /\ conv = NoConv
    /\ walk_files = << >>
    /\ walk_index = 0
    /\ walk_status = "idle"
    /\ results = << >>
    /\ create_png = FALSE
    /\ events = << >>

\* create_binary_from_icon_data applied to one extracted icon
EncodeZmk(icon) ==
    /\ icon_data' = icon
    /\ binary_data' = create_binary_from_icon_data(icon)
    /\ pc' = "encoded"

\* process_single_file, multi-icon branch: an extracted icon is encoded
EncodeZmkIcon ==
    /\ pc = "start"
    /\ \E icon \in Icons : EncodeZmk(icon)
    /\ path' = "zmk"
    /\ UNCHANGED <<header, conv>>
    /\ UNCHANGED batch_vars

\* the single-icon path applied to one parsed descriptor
EncodeSingle(icon) ==
    LET result == convert_image_array_file_to_bin(icon)
    IN  /\ icon_data' = icon
        /\ binary_data' = result.binary
        /\ pc' = IF result.ok THEN "encoded" ELSE "failed"

\* convert_image_array_file_to_bin, single-icon path
EncodeLegacy ==
    /\ pc = "start"
    /\ \E icon \in Icons : EncodeSingle(icon)
    /\ path' = "legacy"
    /\ UNCHANGED <<header, conv>>
    /\ UNCHANGED batch_vars

\* main, --analyze: an existing binary file is read
ReadBinaryFile ==
    /\ pc = "start"
    /\ \/ \E cf \in RawFormats, rs \in RawReserved, w \in SmallDims, h \in SmallDims,
             n \in PaletteLens, bm \in Bitmaps :
               binary_data' = pack_binary_img(RawHeaderWord(cf, rs, w, h), PalPrefix(n) \o bm)
       \/ \E data \in ShortFiles : binary_data' = data
       \/ binary_data' = cmd_bin
    /\ path' = "analyze"
    /\ pc' = "encoded"
    /\ UNCHANGED <<icon_data, header, conv>>
    /\ UNCHANGED batch_vars

\* convert_lvgl_binary_to_png, first step: the header is parsed; without a
\* header the conversion returns False
ConvertParseHeader ==
    /\ pc = "encoded"
    /\ header' = parse_lvgl_binary_header(binary_data)
    /\ IF header'[1] = None
       THEN /\ conv' = convert_lvgl_binary_to_png(binary_data, header', FALSE)
            /\ pc' = "done"
       ELSE /\ conv' = conv
            /\ pc' = "parsed"
    /\ UNCHANGED <<path, icon_data, binary_data>>
    /\ UNCHANGED batch_vars

\* convert_lvgl_binary_to_png, the rest: format resolution, pixel decoding, save
ConvertDecode ==
    /\ pc = "parsed"
    /\ header[2] * header[3] <= MaxPixels
    /\ \E saved \in save_outcomes(header[2], header[3]) :
        conv' = convert_lvgl_binary_to_png(binary_data, header, saved)
    /\ pc' = "done"
    /\ UNCHANGED <<path, icon_data, binary_data, header>>
    /\ UNCHANGED batch_vars

Next ==
    \/ EncodeZmkIcon
    \/ EncodeLegacy
    \/ ReadBinaryFile
    \/ ConvertParseHeader
    \/ ConvertDecode

Spec == Init /\ [][Next]_vars

-----------------------------------------------------------------------------
(* The true-colour decoder over every RGB565 pixel word *)

\* the values of one byte of image_data
PixelBytes == 0 .. 255

\* the bytes of the pixel words read by the last branch of the decoder
FallbackBytes == { 0, 27, 228, 255 }

\* main, --analyze: a TrueColor file of one pixel word is read; its header is
\* 1 x 1 (the word is the whole image, RGB565 branch) or 2 x 1 (the second
\* pixel is missing, last branch)
ReadPixelFile ==
    /\ pc = "start"
    /\ \/ \E byte1 \in PixelBytes, byte2 \in PixelBytes :
             binary_data' = pack_binary_img(RawHeaderWord(4, 0, 1, 1), << byte1, byte2 >>)
       \/ \E byte1 \in FallbackBytes, byte2 \in FallbackBytes :
             binary_data' = pack_binary_img(RawHeaderWord(4, 0, 2, 1), << byte1, byte2 >>)
    /\ path' = "analyze"
    /\ pc' = "encoded"
    /\ UNCHANGED <<icon_data, header, conv>>
    /\ UNCHANGED batch_vars

PixelNext ==
    \/ ReadPixelFile
    \/ ConvertParseHeader
    \/ ConvertDecode

PixelSpec == Init /\ [][PixelNext]_vars

-----------------------------------------------------------------------------
(* Source files: strings, the single-icon text path, process_single_file *)

\* number of files in a directory walk
MaxFiles == 2

\* a Python string is the sequence of its characters
Whitespace == { " ", "\n", "\t" }

HexLower == << "0", "1", "2", "3", "4", "5", "6", "7", "8", "9",
               "a", "b", "c", "d", "e", "f" >>

HexUpper == << "0", "1", "2", "3", "4", "5", "6", "7", "8", "9",
               "A", "B", "C", "D", "E", "F" >>

IsHexChar(c) == \E i \in 1 .. 16 : HexLower[i] = c \/ HexUpper[i] = c

hex_value(c) == (CHOOSE i \in 1 .. 16 : HexLower[i] = c \/ HexUpper[i] = c) - 1

IsDigit(c) == \E i \in 1 .. 10 : HexLower[i] = c

\* s.replace(c, "") for a one-character c
replace_char(s, c) == SelectSeq(s, LAMBDA ch : ch # c)

RECURSIVE replace_0x(_)
\* s.replace("0x", "")
replace_0x(s) ==
    IF Len(s) < 2 THEN s
    ELSE IF s[1] = "0" /\ s[2] = "x" THEN replace_0x(SubSeq(s, 3, Len(s)))
    ELSE << s[1] >> \o replace_0x(Tail(s))

RECURSIVE replace(_, _)
\* s.replace(old, ""): the occurrences of old are removed, left to right
replace(s, old) ==
    IF Len(s) < Len(old) THEN s
    ELSE IF SubSeq(s, 1, Len(old)) = old THEN replace(SubSeq(s, Len(old) + 1, Len(s)), old)
    ELSE << s[1] >> \o replace(Tail(s), old)

RECURSIVE int_16(_)
\* int(val, 16) for a string of hex digits
int_16(val) ==
    IF val = << >> THEN 0
    ELSE 16 * int_16(SubSeq(val, 1, Len(val) - 1)) + hex_value(val[Len(val)])

RECURSIVE lstrip(_)
lstrip(s) == IF s # << >> /\ s[1] \in Whitespace THEN lstrip(Tail(s)) ELSE s

RECURSIVE rstrip(_)
rstrip(s) ==
    IF s # << >> /\ s[Len(s)] \in Whitespace THEN rstrip(SubSeq(s, 1, Len(s) - 1)) ELSE s

\* s.strip()
strip(s) == rstrip(lstrip(s))

\* s.startswith(prefix)
startswith(s, prefix) == Len(s) >= Len(prefix) /\ SubSeq(s, 1, Len(prefix)) = prefix

RECURSIVE digits_value(_)
digits_value(s) ==
    IF s = << >> THEN 0 ELSE 10 * digits_value(SubSeq(s, 1, Len(s) - 1)) + hex_value(s[Len(s)])

\* int(s) for the strings explored here: surrounding whitespace is ignored, the
\* rest must be decimal digits; ok = FALSE is ValueError
python_int(s) ==
    LET t == strip(s)
    IN  IF t # << >> /\ \A i \in 1 .. Len(t) : IsDigit(t[i])
        THEN [ok |-> TRUE, value |-> digits_value(t)]
        ELSE [ok |-> FALSE, value |-> 0]

\* bytearray.fromhex(s): pairs of hex digits; ok = FALSE is ValueError
bytearray_fromhex(s) ==
    IF Len(s) % 2 = 0 /\ \A i \in 1 .. Len(s) : IsHexChar(s[i])
    THEN [ok |-> TRUE,
          bytes |-> [ i \in 1 .. (Len(s) \div 2) |->
                        16 * hex_value(s[2 * i - 1]) + hex_value(s[2 * i]) ]]
    ELSE [ok |-> FALSE, bytes |-> << >>]

\* bytearray(list) accepts only values in range(256); otherwise ValueError
bytearray_ok(data) == \A i \in 1 .. Len(data) : data[i] \in 0 .. 255

\* the c_array text turned into hex digits: newlines, spaces, commas and "0x" removed
c_array_hex(c_array) ==
    strip(replace_0x(replace_char(replace_char(replace_char(c_array, "\n"), " "), ",")))

\* result of a regular expression search: the match's group(1), or no match
Match(s) == [found |-> TRUE, group |-> s]

NoMatch == [found |-> FALSE, group |-> << >>]

sizeof_prefix == << "s", "i", "z", "e", "o", "f", "(" >>

\* actual_data_size with a sizeof(...) expression resolved like a missing field
actual_data_size_sizeof_as_missing(img_data_size, c_array) ==
    LET data_size_str == IF img_data_size.found THEN img_data_size.group ELSE << "0" >>
    IN  IF startswith(data_size_str, sizeof_prefix) THEN 0
        ELSE IF python_int(data_size_str).ok THEN python_int(data_size_str).value
        ELSE Len(c_array)

\* actual_data_size of convert_image_array_file_to_bin
actual_data_size(img_data_size, c_array) ==
    LET data_size_str == IF img_data_size.found THEN img_data_size.group ELSE << "0" >>
    IN  IF startswith(data_size_str, sizeof_prefix) THEN Len(c_array)
        ELSE IF python_int(data_size_str).ok THEN python_int(data_size_str).value
        ELSE Len(c_array)

\* what process_single_file did with a file: status "skipped" (the walk's filter
\* passed it over), "failed" (the conversion returned None), "raised" (an
\* exception left process_single_file) or "written"; bins are the .bin files written
Result(status, layout, bins, data_size, c_array) ==
    [status |-> status, layout |-> layout, bins |-> bins,
     data_size |-> data_size, c_array |-> c_array]

Raised == Result("raised", "none", << >>, None, << >>)

Failed == Result("failed", "none", << >>, None, << >>)

Skipped == Result("skipped", "none", << >>, None, << >>)

\* convert_image_array_file_to_bin after the ZMK attempt found no icon: the
\* single-icon path on the text of the file
single_icon_from_text(file) ==
    IF file.c_array = << >> THEN Failed
    ELSE LET c_array == bytearray_fromhex(c_array_hex(file.c_array))
             w == python_int(file.img_header_w.group)
             h == python_int(file.img_header_h.group)
         IN  IF ~ c_array.ok THEN Raised
             ELSE IF ~ file.img_header_cf.found THEN Raised
             ELSE IF img_header_cf_val(file.img_header_cf.group) = None THEN Failed
             ELSE IF ~ file.img_header_w.found \/ ~ w.ok THEN Raised
             ELSE IF ~ file.img_header_h.found \/ ~ h.ok THEN Raised
             ELSE Result("written", "legacy",
                         << convert_image_array_file_to_bin(
                                Icon(file.img_header_cf.group, w.value, h.value,
                                     c_array.bytes)).binary >>,
                         actual_data_size(file.img_data_size, c_array.bytes),
                         c_array.bytes)

\* arrays[name] = [int(val, 16) for val in hex_values], for one array match
array_values(hex_values) == [ i \in 1 .. Len(hex_values) |-> int_16(hex_values[i]) ]

\* the matches of array_pattern that the loop enters into the dictionary arrays
\* under the given name: those with at least one hex value
arrays_named(arrays, name) ==
    { i \in 1 .. Len(arrays) : arrays[i].name = name /\ arrays[i].hex_values # << >> }

\* "array_name in arrays"
arrays_has(arrays, name) == arrays_named(arrays, name) # { }

\* arrays[array_name]: the last array entered under the name
arrays_get(arrays, name) ==
    LET last == CHOOSE i \in arrays_named(arrays, name) :
                    \A j \in arrays_named(arrays, name) : j <= i
    IN  array_values(arrays[last].hex_values)

\* icons[name] = {...}: a new name is entered at the end, a name already in the
\* dictionary keeps its place and takes the new value
icons_put(icons, icon) ==
    IF \E i \in 1 .. Len(icons) : icons[i].name = icon.name
    THEN [ i \in 1 .. Len(icons) |-> IF icons[i].name = icon.name THEN icon ELSE icons[i] ]
    ELSE Append(icons, icon)

\* array_name = data_match.group(1).replace('_map', '').replace('_icon', '')
array_name_of(data) ==
    replace(replace(data, << "_", "m", "a", "p" >>), << "_", "i", "c", "o", "n" >>)

RECURSIVE descriptor_loop(_, _, _)
\* the loop over the matches of descriptor_pattern
descriptor_loop(arrays, descriptors, icons) ==
    IF descriptors = << >> THEN icons
    ELSE LET d == Head(descriptors)
             array_name == array_name_of(d.data_match.group)
         IN  IF /\ d.width_match.found /\ d.height_match.found
                /\ d.cf_match.found /\ d.data_match.found
                /\ arrays_has(arrays, array_name)
             THEN descriptor_loop(arrays, Tail(descriptors),
                      icons_put(icons,
                          [name |-> d.name,
                           width |-> python_int(d.width_match.group).value,
                           height |-> python_int(d.height_match.group).value,
                           format |-> d.cf_match.group,
                           data |-> arrays_get(arrays, array_name)]))
             ELSE descriptor_loop(arrays, Tail(descriptors), icons)

\* extract_zmk_icons_from_file on the matches of its two patterns; the
\* dictionary icons is the sequence of its values in insertion order
extract_zmk_icons_from_file(arrays, descriptors) ==
    descriptor_loop(arrays, descriptors, << >>)

RECURSIVE zmk_bins(_)
\* the loop over the icons of a ZMK file: the binaries written before the first
\* icon whose data bytearray() refuses
zmk_bins(icons) ==
    IF icons = << >> \/ ~ bytearray_ok(icons[1].data) THEN << >>
    ELSE << create_binary_from_icon_data(icons[1]) >> \o zmk_bins(Tail(icons))

\* the key 'legacy'
legacy == << "l", "e", "g", "a", "c", "y" >>

\* process_single_file that tries the single-icon layout before the ZMK layout
process_single_file_single_icon_first(file) ==
    LET single == single_icon_from_text(file)
        icons == extract_zmk_icons_from_file(file.arrays, file.descriptors)
    IN  IF single.status = "written" \/ icons = << >> THEN single
        ELSE IF \A i \in 1 .. Len(icons) : bytearray_ok(icons[i].data)
        THEN Result("written", "zmk", zmk_bins(icons), None, << >>)
        ELSE Result("raised", "zmk", zmk_bins(icons), None, << >>)

\* process_single_file(file_path, target_dir, create_png) on an existing file:
\* the binaries it writes.  convert_image_array_file_to_bin returns the ZMK
\* icons if there are any and takes the single-icon path otherwise; a
\* dictionary of icons with the key 'legacy' is taken for a single-icon result,
\* and result['legacy']['binary'] raises KeyError
process_single_file(file) ==
    LET icons == extract_zmk_icons_from_file(file.arrays, file.descriptors)
    IN  IF icons # << >>
        THEN IF \E i \in 1 .. Len(icons) : icons[i].name = legacy
             THEN Result("raised", "zmk", << >>, None, << >>)
             ELSE IF \A i \in 1 .. Len(icons) : bytearray_ok(icons[i].data)
             THEN Result("written", "zmk", zmk_bins(icons), None, << >>)
             ELSE Result("raised", "zmk", zmk_bins(icons), None, << >>)
        ELSE single_icon_from_text(file)

\* the two conversions of one written binary when create_png is set:
\* success1 and success2 of convert_lvgl_binary_to_png at scale 1 and 4
png_events(file_index, k, binary, saved) ==
    LET hdr == parse_lvgl_binary_header(binary)
    IN  << [file |-> file_index, icon |-> k, kind |-> "png",
            ok |-> convert_lvgl_binary_to_png(binary, hdr, saved[1]).ok],
           [file |-> file_index, icon |-> k, kind |-> "png_4x",
            ok |-> convert_lvgl_binary_to_png(binary, hdr, saved[2]).ok] >>

RECURSIVE write_events(_, _, _, _, _)
\* what process_single_file does with the binaries from number k on, in program
\* order: each is written to its .bin file, then, if create_png, converted
write_events(file_index, bins, k, png, saved) ==
    IF k > Len(bins) THEN << >>
    ELSE << [file |-> file_index, icon |-> k, kind |-> "bin", ok |-> TRUE] >>
         \o (IF png THEN png_events(file_index, k, bins[k], saved[k]) ELSE << >>)
         \o write_events(file_index, bins, k + 1, png, saved)

\* the outcomes of img.save for the conversions of the binaries
save_choices(bins) ==
    { saved \in [1 .. Len(bins) -> BOOLEAN \X BOOLEAN] :
        \A k \in 1 .. Len(bins) :
            LET hdr == parse_lvgl_binary_header(bins[k])
            IN  /\ saved[k][1] \in save_outcomes(hdr[2], hdr[3])
                /\ saved[k][2] \in save_outcomes(hdr[2], hdr[3]) }

\* the filter of the walk: "if not filename.endswith('.c') or 'font' in filename: continue"
walk_takes(file) == file.endswith_c /\ ~ file.has_font

-----------------------------------------------------------------------------
(* Explored source files *)

\* a match of array_pattern: group(1) and the hex values found in group(2)
Array(name, hex_values) == [name |-> name, hex_values |-> hex_values]

\* a match of descriptor_pattern: group(1) and the four searches in group(2)
Descriptor(name, w, h, cf, data) ==
    [name |-> name, width_match |-> w, height_match |-> h,
     cf_match |-> cf, data_match |-> data]

\* what the program reads off a source file: the two tests on its name, the
\* matches of the two patterns of extract_zmk_icons_from_file, the first array
\* text and the descriptor fields found by the single-icon searches
SourceFile(endswith_c, has_font, arrays, descriptors, c_array, cf, w, h, data_size) ==
    [endswith_c |-> endswith_c, has_font |-> has_font,
     arrays |-> arrays, descriptors |-> descriptors,
     c_array |-> c_array, img_header_cf |-> cf,
     img_header_w |-> w, img_header_h |-> h, img_data_size |-> data_size]

\* "0x18, 0x60"
TwoByteArray == << "0", "x", "1", "8", ",", " ", "0", "x", "6", "0" >>

\* "0x00,0xFf,\n0x1B"
ThreeByteArray == << "0", "x", "0", "0", ",", "0", "x", "F", "f", ",", "\n", "0", "x", "1", "B" >>

\* "0x1,0x60": one digit short
OddHexArray == << "0", "x", "1", ",", "0", "x", "6", "0" >>

\* "sizeof(cmd_map)"
SizeofText == << "s", "i", "z", "e", "o", "f", "(", "c", "m", "d", "_", "m", "a", "p", ")" >>

\* "28"
LiteralText == << "2", "8" >>

\* "CMD_SIZE"
MacroText == << "C", "M", "D", "_", "S", "I", "Z", "E" >>

\* single-icon file, .data_size = sizeof(cmd_map)
SizeofFile ==
    SourceFile(TRUE, FALSE, << >>, << >>, TwoByteArray, Match("LV_IMG_CF_INDEXED_1BIT"),
               Match(<< "1", "4" >>), Match(<< "1" >>), Match(SizeofText))

\* single-icon file, .data_size = sizeof(cmd_map), three array bytes
SizeofFile3 ==
    SourceFile(TRUE, FALSE, << >>, << >>, ThreeByteArray, Match("LV_IMG_CF_TRUE_COLOR"),
               Match(<< "1" >>), Match(<< "1" >>), Match(SizeofText))

\* single-icon file, .data_size = 28
LiteralFile ==
    SourceFile(TRUE, FALSE, << >>, << >>, ThreeByteArray, Match("LV_IMG_CF_TRUE_COLOR"),
               Match(<< "1" >>), Match(<< "1" >>), Match(LiteralText))

\* single-icon file, .data_size = CMD_SIZE
MacroFile ==
    SourceFile(TRUE, FALSE, << >>, << >>, TwoByteArray, Match("LV_IMG_CF_INDEXED_1BIT"),
               Match(<< "2" >>), Match(<< "1" >>), Match(MacroText))

\* single-icon file without a .data_size field
NoSizeFile ==
    SourceFile(TRUE, FALSE, << >>, << >>, TwoByteArray, Match("LV_IMG_CF_INDEXED_1BIT"),
               Match(<< "2" >>), Match(<< "1" >>), NoMatch)

\* single-icon file whose format token is unknown
UnknownTokenFile ==
    SourceFile(TRUE, FALSE, << >>, << >>, TwoByteArray, Match("LV_IMG_CF_RAW"),
               Match(<< "2" >>), Match(<< "1" >>), Match(SizeofText))

\* single-icon file whose array text is not pairs of hex digits
OddHexFile ==
    SourceFile(TRUE, FALSE, << >>, << >>, OddHexArray, Match("LV_IMG_CF_INDEXED_1BIT"),
               Match(<< "2" >>), Match(<< "1" >>), Match(SizeofText))

\* a file with an array but no ".header.cf = ...," field
NoFormatFile ==
    SourceFile(TRUE, FALSE, << >>, << >>, TwoByteArray, NoMatch,
               Match(<< "2" >>), Match(<< "1" >>), NoMatch)

\* a .c file in which neither layout is found
NoLayoutFile ==
    SourceFile(TRUE, FALSE, << >>, << >>, << >>, NoMatch, NoMatch, NoMatch, NoMatch)

\* names of arrays and descriptors, and references to arrays
ctrl == << "c", "t", "r", "l" >>

shift == << "s", "h", "i", "f", "t" >>

alt == << "a", "l", "t" >>

gui == << "g", "u", "i" >>

meta == << "m", "e", "t", "a" >>

ctrl_map == << "c", "t", "r", "l", "_", "m", "a", "p" >>

ctrl_icon == << "c", "t", "r", "l", "_", "i", "c", "o", "n" >>

shift_map == << "s", "h", "i", "f", "t", "_", "m", "a", "p" >>

alt_map == << "a", "l", "t", "_", "m", "a", "p" >>

legacy_map == << "l", "e", "g", "a", "c", "y", "_", "m", "a", "p" >>

\* "uint8_t ctrl_map[] = { 0xE4, 0x1B };"
CtrlArray == Array(ctrl, << << "E", "4" >>, << "1", "B" >> >>)

\* "uint8_t shift_map[] = { 0x100, 0x1B };"
WideValueArray == Array(shift, << << "1", "0", "0" >>, << "1", "B" >> >>)

\* "const lv_img_dsc_t <name>_icon = { .w = 2, .h = 1, .cf = LV_IMG_CF_INDEXED_1BIT, .data = <data> };"
Descriptor2x1(name, data) ==
    Descriptor(name, Match(<< "2" >>), Match(<< "1" >>),
               Match("LV_IMG_CF_INDEXED_1BIT"), Match(data))

\* a multi-icon file with one icon
ZmkFile ==
    SourceFile(TRUE, FALSE, << CtrlArray >>, << Descriptor2x1(ctrl, ctrl_map) >>,
               << >>, NoMatch, NoMatch, NoMatch, NoMatch)

\* a multi-icon file whose second icon has the array element 0x100
ZmkWideValueFile ==
    SourceFile(TRUE, FALSE, << CtrlArray, WideValueArray >>,
               << Descriptor2x1(ctrl, ctrl_map), Descriptor2x1(shift, shift_map) >>,
               << >>, NoMatch, NoMatch, NoMatch, NoMatch)

\* a multi-icon file whose first icon has the array element 0x100
ZmkWideFirstFile ==
    SourceFile(TRUE, FALSE, << WideValueArray, CtrlArray >>,
               << Descriptor2x1(shift, shift_map), Descriptor2x1(ctrl, ctrl_map) >>,
               << >>, NoMatch, NoMatch, NoMatch, NoMatch)

\* a multi-icon file with the icon legacy_icon
ZmkLegacyNameFile ==
    SourceFile(TRUE, FALSE, << Array(legacy, CtrlArray.hex_values) >>,
               << Descriptor2x1(legacy, legacy_map) >>,
               << >>, NoMatch, NoMatch, NoMatch, NoMatch)

\* a file in which both layouts are found.  Of its descriptors, ctrl refers to
\* ctrl_map, shift to an array that is not in the file, alt to an array without
\* hex values, gui has no .cf field, and meta (1 x 2) refers to ctrl_icon; the
\* single-icon searches find the first array and the fields of the first
\* descriptor
MixedZmkFile ==
    SourceFile(TRUE, FALSE, << CtrlArray, Array(alt, << >>) >>,
               << Descriptor2x1(ctrl, ctrl_map),
                  Descriptor2x1(shift, shift_map),
                  Descriptor2x1(alt, alt_map),
                  Descriptor(gui, Match(<< "2" >>), Match(<< "1" >>), NoMatch, Match(ctrl_map)),
                  Descriptor(meta, Match(<< "1" >>), Match(<< "2" >>),
                             Match("LV_IMG_CF_INDEXED_1BIT"), Match(ctrl_icon)) >>,
               TwoByteArray, Match("LV_IMG_CF_INDEXED_1BIT"),
               Match(<< "2" >>), Match(<< "1" >>), Match(SizeofText))

\* a file with ZMK descriptors none of which has its array, and in which the
\* single-icon layout is found
UnpairedZmkFile ==
    SourceFile(TRUE, FALSE, << CtrlArray >>,
               << Descriptor2x1(shift, shift_map), Descriptor2x1(alt, alt_map) >>,
               TwoByteArray, Match("LV_IMG_CF_INDEXED_1BIT"),
               Match(<< "2" >>), Match(<< "1" >>), Match(SizeofText))

\* a file that is not a .c file
HeaderFile ==
    SourceFile(FALSE, FALSE, << >>, << >>, TwoByteArray, Match("LV_IMG_CF_INDEXED_1BIT"),
               Match(<< "2" >>), Match(<< "1" >>), Match(SizeofText))

\* a .c file with "font" in its name
FontFile ==
    SourceFile(TRUE, TRUE, << >>, << >>, OddHexArray, NoMatch, NoMatch, NoMatch, NoMatch)

SourceFiles ==
    { SizeofFile, SizeofFile3, LiteralFile, MacroFile, NoSizeFile, UnknownTokenFile,
      OddHexFile, NoFormatFile, NoLayoutFile, ZmkFile, ZmkWideValueFile,
      ZmkWideFirstFile, ZmkLegacyNameFile, MixedZmkFile, UnpairedZmkFile,
      HeaderFile, FontFile }

-----------------------------------------------------------------------------
(* The directory walk of convert_from_c_array_img_to_binary *)

\* os.walk hands the loop the files of the source directory
StartWalk ==
    /\ walk_status = "idle"
    /\ \E n \in 1 .. MaxFiles : \E files \in [1 .. n -> SourceFiles] :
           walk_files' = files
    /\ \E png \in BOOLEAN : create_png' = png
    /\ walk_status' = "walking"
    /\ UNCHANGED <<walk_index, results, events>>
    /\ UNCHANGED codec_vars

\* one pass of the loop over a file the filter passes over: continue
WalkSkipFile ==
    /\ walk_status = "walking"
    /\ walk_index < Len(walk_files)
    /\ ~ walk_takes(walk_files[walk_index + 1])
    /\ results' = Append(results, Skipped)
    /\ walk_index' = walk_index + 1
    /\ UNCHANGED <<walk_files, walk_status, create_png, events>>
    /\ UNCHANGED codec_vars

\* one pass of the loop over a file it takes: process_single_file is called,
\* with nothing around the call to catch an exception
WalkProcessFile ==
    /\ walk_status = "walking"
    /\ walk_index < Len(walk_files)
    /\ walk_takes(walk_files[walk_index + 1])
    /\ LET r == process_single_file(walk_files[walk_index + 1])
       IN  /\ results' = Append(results, r)
           /\ \E saved \in save_choices(r.bins) :
                  events' = events \o write_events(walk_index + 1, r.bins, 1, create_png, saved)
           /\ walk_status' = IF r.status = "raised" THEN "raised" ELSE "walking"
    /\ walk_index' = walk_index + 1
    /\ UNCHANGED <<walk_files, create_png>>
    /\ UNCHANGED codec_vars

\* the loop has taken every file
WalkEnd ==
    /\ walk_status = "walking"
    /\ walk_index = Len(walk_files)
    /\ walk_status' = "finished"
    /\ UNCHANGED <<walk_files, walk_index, results, create_png, events>>
    /\ UNCHANGED codec_vars

BatchNext ==
    \/ StartWalk
    \/ WalkSkipFile
    \/ WalkProcessFile
    \/ WalkEnd

BatchSpec == Init /\ [][BatchNext]_vars


-----------------------------------------------------------------------------
(* Properties of the container: header and payload *)

\* the format token enumeration of the container format
TokenValue(t) ==
    CASE t = "LV_IMG_CF_TRUE_COLOR"       -> 4
      [] t = "LV_IMG_CF_TRUE_COLOR_ALPHA" -> 5
      [] t = "LV_IMG_CF_INDEXED_1BIT"     -> 7
      [] t = "LV_IMG_CF_INDEXED_2BIT"     -> 8
      [] t = "LV_IMG_CF_INDEXED_4BIT"     -> 9
      [] t = "LV_IMG_CF_INDEXED_8BIT"     -> 10

\* the container was built by one of the two encoders from icon_data
Encoded == path \in { "zmk", "legacy" } /\ pc \in { "encoded", "parsed", "done" }

\* the header of the container has been parsed
Parsed == pc \in { "parsed", "done" }

\* the payload of the container: every byte after the 4 header bytes
Payload == From(binary_data, 4)

\* C1: header round-trip.  For each of the six format codes and every width and
\* height up to 2047, parsing the first 4 bytes of the container built by either
\* encoder returns exactly (format, width, height).
C1_HeaderRoundTrip ==
    ( /\ Encoded /\ Parsed
      /\ icon_data.format \in KnownTokens
      /\ icon_data.width <= 2047
      /\ icon_data.height <= 2047 )
    => header = << TokenValue(icon_data.format), icon_data.width, icon_data.height >>

\* C1 witness: a 2047 x 1023 Indexed8 icon encoded by the single-icon path is parsed back
C1_Witness ==
    /\ Encoded /\ Parsed /\ path = "legacy"
    /\ icon_data.format = "LV_IMG_CF_INDEXED_8BIT"
    /\ icon_data.width = 2047 /\ icon_data.height = 1023
    /\ header = << 10, 2047, 1023 >>

\* the 4 bytes, least significant first, of the word
\* cf | (w mod 2048) << 10 | (h mod 2048) << 21, computed field by field
ExpectedHeaderBytes(cf, w, h) ==
    LET wm == w % 2048
        hm == h % 2048
    IN  << cf,
           (wm % 64) * 4,
           (wm \div 64) + (hm % 8) * 32,
           hm \div 8 >>

\* C2: bit-exact header encoding.  For each known token and any declared width
\* and height, the 4 header bytes written by both encoders are the
\* least-significant-byte-first bytes of value(token) | (width mod 2048) << 10 |
\* (height mod 2048) << 21, so bits 5..9 of the header are 0.
C2_HeaderBitExact ==
    (Encoded /\ icon_data.format \in KnownTokens)
    => /\ Len(binary_data) >= 4
       /\ SubSeq(binary_data, 1, 4)
            = ExpectedHeaderBytes(TokenValue(icon_data.format),
                                  icon_data.width, icon_data.height)
       /\ binary_data[1] \div 32 = 0
       /\ binary_data[2] % 4 = 0

\* C2 witness: a 2049 x 4095 true-colour icon encoded by the multi-icon encoder;
\* its header holds width 1 and height 2047
C2_Witness ==
    /\ Encoded /\ path = "zmk"
    /\ icon_data.format = "LV_IMG_CF_TRUE_COLOR"
    /\ icon_data.width = 2049 /\ icon_data.height = 4095
    /\ SubSeq(binary_data, 1, 4) = << 4, 4, 224, 255 >>

\* C3: the payload is carried verbatim.  For an n-byte source array the container
\* of either encoder has length 4 + n and byte 4 + i of it is byte i of the array.
C3_PayloadVerbatim ==
    Encoded
    => /\ Len(binary_data) = 4 + Len(icon_data.data)
       /\ \A i \in Range(Len(icon_data.data)) :
              At(binary_data, 4 + i) = At(icon_data.data, i)

\* C3 witness: a 1028-byte array (256-entry palette and 4 bitmap bytes) encoded
\* by the multi-icon encoder
C3_Witness ==
    /\ Encoded /\ path = "zmk"
    /\ Len(icon_data.data) = 1028
    /\ Len(binary_data) = 1032
    /\ At(binary_data, 1031) = At(icon_data.data, 1027)

-----------------------------------------------------------------------------
(* Properties of the decoder: format resolution *)

\* convert_lvgl_binary_to_png has run on a container with a header
Decoded == pc = "done" /\ conv.called /\ header[1] # None

Declared == header[1]

Width == header[2]

Height == header[3]

\* the format codes that have an encoder
KnownFormats == { 4, 5, 7, 8, 9, 10 }

IndexedDecoders == { "indexed_1bit", "indexed_2bit", "indexed_4bit", "indexed_8bit" }

\* the format code whose decoder is d
DecoderFormat(d) ==
    CASE d = "indexed_1bit"     -> 7
      [] d = "indexed_2bit"     -> 8
      [] d = "indexed_4bit"     -> 9
      [] d = "indexed_8bit"     -> 10
      [] d = "true_color"       -> 4
      [] d = "true_color_alpha" -> 5

\* the three exact true-colour sizes of a width x height image
TrueColorSizes == { Width * Height * 2, Width * Height * 3, Width * Height * 4 }

\* C4, as claimed: when the header declares Indexed1 and the payload length is
\* exactly width*height*2, the payload is decoded with the TrueColor decoder,
\* not with the 1-bit indexed decoder (stated for images that have pixels).
C4_Indexed1ExactSizeIsTrueColor ==
    (Decoded /\ Declared = 7 /\ Width * Height > 0 /\ Len(Payload) = Width * Height * 2)
    => conv.decoder = "true_color"

C6_LastResortIsRGB565 ==
    ( /\ Decoded /\ Width * Height > 0
      /\ Declared \notin KnownFormats
      /\ Len(Payload) \notin TrueColorSizes )
    => /\ conv.decoder = "true_color"
       /\ conv.mode = "RGB565"

-----------------------------------------------------------------------------
(* Properties of the decoder: indexed formats *)

\* the bitmap region of an indexed payload whose palette takes palette_bytes bytes
BitmapOf(palette_bytes) == From(Payload, palette_bytes)

\* bytes of the palette of the format decoded by d
PaletteBytes(d) ==
    CASE d = "indexed_1bit" -> 8
      [] d = "indexed_2bit" -> 16
      [] d = "indexed_4bit" -> 64
      [] d = "indexed_8bit" -> 1024

\* bits per pixel of the format decoded by d
BitsPerPixel(d) ==
    CASE d = "indexed_1bit" -> 1
      [] d = "indexed_2bit" -> 2
      [] d = "indexed_4bit" -> 4
      [] d = "indexed_8bit" -> 8

\* bit number k of a byte sequence, counted most-significant-bit-first across bytes
MsbBit(bytes, k) == (At(bytes, k \div 8) \div Pow2(7 - (k % 8))) % 2

HasData(d, x, y) ==
    CASE d = "indexed_1bit" -> row_has_data(BitmapOf(8), y)
      [] d = "indexed_2bit" -> (y * Width + x) \div 4 < Len(BitmapOf(16))
      [] d = "indexed_4bit" -> (y * Width + x) \div 2 < Len(BitmapOf(64))
      [] d = "indexed_8bit" -> y * Width + x < Len(BitmapOf(1024))

\* the palette index the decoder d extracts for a pixel (x,y) that has data
PixelIndex(d, x, y) ==
    CASE d = "indexed_1bit" -> pixel_value_1bit(BitmapOf(8), x, y)
      [] d = "indexed_2bit" -> pixel_value_2bit(BitmapOf(16), y * Width + x)
      [] d = "indexed_4bit" -> pixel_value_4bit(BitmapOf(64), y * Width + x)
      [] d = "indexed_8bit" -> At(BitmapOf(1024), y * Width + x)

\* palette entry k of the payload read as (B,G,R,A) and exposed as (R,G,B,A)
EntryAsRGBA(k) ==
    << At(Payload, 4 * k + 2), At(Payload, 4 * k + 1),
       At(Payload, 4 * k), At(Payload, 4 * k + 3) >>

\* C8, as claimed: for every indexed format the 4 bytes of palette entry k are
\* read as (B,G,R,A) and the raster colour of a pixel with index k is (R,G,B,A).
C8_PaletteIsBGRA ==
    (Decoded /\ conv.decoder \in IndexedDecoders /\ conv.status = "img")
    => \A y \in Range(Height), x \in Range(Width) :
           HasData(conv.decoder, x, y)
           => conv.img[y][x] = EntryAsRGBA(PixelIndex(conv.decoder, x, y))

\* bitmap bytes that a width x height image of the format decoded by d needs
BitmapBytesNeeded(d) == (Width * Height * BitsPerPixel(d) + 7) \div 8

\* C9, as claimed: for every indexed format, when the payload holds the complete
\* palette but the bitmap region is shorter than the image needs, decoding
\* returns success and every pixel without bitmap data has the colour of palette
\* entry 0 (in either byte order of the entry).
C9_TruncatedBitmapIsLenient ==
    ( /\ Decoded /\ conv.decoder \in IndexedDecoders
      /\ Width <= 16
      /\ Len(Payload) >= PaletteBytes(conv.decoder)
      /\ Len(BitmapOf(PaletteBytes(conv.decoder))) < BitmapBytesNeeded(conv.decoder) )
    => /\ conv.ok
       /\ conv.status = "img"
       /\ \A y \in Range(Height), x \in Range(Width) :
              ~ HasData(conv.decoder, x, y)
              => conv.img[y][x] \in { EntryAsRGBA(0), palette_1bit(Payload, 0) }

\* bytes of the palette of the indexed format code cf
PaletteBytesOfFormat(cf) ==
    CASE cf = 7  -> 8
      [] cf = 8  -> 16
      [] cf = 9  -> 64
      [] cf = 10 -> 1024

-----------------------------------------------------------------------------
(* Properties of the decoder: true-colour formats *)

\* C11, as claimed: the TrueColor decoder interprets the payload as RGB888 only
\* when its length is exactly width*height*3; for every other length it
\* interprets it as RGB565 using the bytes available, and a pixel without two
\* full bytes is zero (stated for images that have pixels).
C11_TrueColorDisambiguation ==
    (Decoded /\ conv.decoder = "true_color" /\ Width * Height > 0)
    => /\ conv.status = "img"
       /\ conv.mode = (IF Len(Payload) = Width * Height * 3 THEN "RGB888" ELSE "RGB565")
       /\ \A y \in Range(Height), x \in Range(Width) :
              LET pixel_index == (y * Width + x) * 2
              IN  \/ Len(Payload) = Width * Height * 3
                  \/ conv.img[y][x] =
                         (IF pixel_index + 1 < Len(Payload)
                          THEN rgb565_pixel(At(Payload, pixel_index),
                                            At(Payload, pixel_index + 1))
                          ELSE << 0, 0, 0 >>)

\* C12, as claimed: when the TrueColorAlpha decoder receives a payload shorter
\* than width*height*4 a raster is still produced: a pixel with 4 available
\* bytes is the (R,G,B,A) copy of those bytes, a missing pixel is (0,0,0,0).
C12_ShortRGBAIsLenient ==
    ( /\ Decoded /\ conv.decoder = "true_color_alpha"
      /\ Width * Height > 0
      /\ Len(Payload) < Width * Height * 4 )
    => /\ conv.status = "img"
       /\ \A y \in Range(Height), x \in Range(Width) :
              LET pixel_index == (y * Width + x) * 4
              IN  conv.img[y][x] =
                      IF pixel_index + 3 < Len(Payload)
                      THEN << At(Payload, pixel_index), At(Payload, pixel_index + 1),
                              At(Payload, pixel_index + 2), At(Payload, pixel_index + 3) >>
                      ELSE << 0, 0, 0, 0 >>

-----------------------------------------------------------------------------
(* Properties of the source extraction and the encoders *)

\* an icon or descriptor has been handed to one of the two encoders
Attempted == path \in { "zmk", "legacy" }

\* C13, as claimed: if the declared format token is not one of the six known
\* tokens, encoding fails and no container is produced, in the single-icon
\* layout and in the multi-icon layout alike.
C13_UnknownTokenRejected ==
    (Attempted /\ icon_data.format \notin KnownTokens)
    => /\ pc = "failed"
       /\ binary_data = << >>

\* C13, amended: with an unknown format token the single-icon layout fails and
\* produces no container; the multi-icon layout does not fail: it emits a
\* container whose header carries format code 7 (Indexed1) with the declared
\* dimensions and the array as payload.
C13_UnknownTokenRejectedOrIndexed1 ==
    (Attempted /\ icon_data.format \notin KnownTokens)
    => /\ path = "legacy" => (pc = "failed" /\ binary_data = << >>)
       /\ path = "zmk" =>
              /\ pc # "failed"
              /\ SubSeq(binary_data, 1, 4)
                    = ExpectedHeaderBytes(7, icon_data.width, icon_data.height)
              /\ Payload = icon_data.data
              /\ Parsed => header[1] = 7

\* C13 witness: a 2 x 1 icon with the token LV_IMG_CF_RAW went through the
\* multi-icon encoder and its container parses as Indexed1
C13_Witness ==
    /\ path = "zmk" /\ Parsed
    /\ icon_data.format = "LV_IMG_CF_RAW"
    /\ icon_data.width = 2 /\ icon_data.height = 1
    /\ header = << 7, 2, 1 >>

-----------------------------------------------------------------------------
(* Properties of the decoder: indexed bitmaps, bit for bit *)

\* the expected payload size of the indexed format decoded by d:
\* palette bytes + ceil(width*height*bpp/8)
ExpectedIndexedSize(d) == PaletteBytes(d) + BitmapBytesNeeded(d)

\* field number k of bpp bits in a byte sequence, fields counted
\* most-significant-bit-first within each byte
MsbField(bytes, bpp, k) ==
    LET per_byte == 8 \div bpp
    IN  (At(bytes, k \div per_byte) \div Pow2(8 - bpp * ((k % per_byte) + 1))) % Pow2(bpp)

\* the palette colour the decoder d paints for palette index k
DecoderColour(d, k) ==
    IF d = "indexed_1bit" THEN palette_1bit(Payload, k) ELSE palette_bgra(Payload, k)

\* C15, as claimed: for each of Indexed1/2/4/8 and every payload whose length is
\* exactly the format's expected size, the palette index decoded for pixel
\* (x,y) is field number y*width + x of the bitmap, fields of bpp bits packed
\* most-significant-bit-first, so that re-packing the decoded indices in that
\* order reproduces the bitmap bits of all width*height pixels.
C15_IndexedBitsPreserved ==
    ( /\ Decoded /\ conv.decoder \in IndexedDecoders
      /\ Width * Height > 0
      /\ Len(Payload) = ExpectedIndexedSize(conv.decoder) )
    => /\ conv.status = "img"
       /\ \A y \in Range(Height), x \in Range(Width) :
              conv.img[y][x] =
                  DecoderColour(conv.decoder,
                                MsbField(BitmapOf(PaletteBytes(conv.decoder)),
                                         BitsPerPixel(conv.decoder), y * Width + x))

-----------------------------------------------------------------------------
(* Properties of header decoding *)

\* the header has been looked at by convert_lvgl_binary_to_png
HeaderSeen == pc \in { "parsed", "done" }

\* C17: for an input shorter than 4 bytes the header parse reports no format,
\* width or height, and the conversion returns False without selecting a
\* format, running a pixel decoder or producing an image.
C17_ShortHeaderFails ==
    (HeaderSeen /\ Len(binary_data) < 4)
    => /\ header = << None, None, None >>
       /\ pc = "done"
       /\ conv.called /\ ~ conv.ok
       /\ conv.actual_format = None
       /\ conv.decoder = "none"
       /\ conv.status = "none"
       /\ conv.img = NoImg

\* C17 witness: a 3-byte file has been refused
C17_Witness ==
    /\ pc = "done" /\ Len(binary_data) = 3
    /\ header = << None, None, None >>
    /\ conv.called /\ ~ conv.ok

\* the always_zero bits 5..7 of the first header byte
AlwaysZeroBits == (binary_data[1] \div 32) % 8

\* the width field computed from header bytes 1, 2 (bits 10..20)
WidthOfBytes == (binary_data[2] \div 4) + (binary_data[3] % 32) * 64

\* the height field computed from header bytes 2, 3 (bits 21..31)
HeightOfBytes == (binary_data[3] \div 32) + binary_data[4] * 8

\* C18: for an input of at least 4 bytes header decoding returns the extracted
\* (format, width, height), whatever the reserved bits are, and the conversion
\* goes on to format resolution and a pixel decoder, also when bits 5..7 are
\* nonzero, a dimension is 0 or the format code is greater than 10.
C18_HeaderWarningsNonFatal ==
    (HeaderSeen /\ Len(binary_data) >= 4)
    => /\ header = << binary_data[1] % 32, WidthOfBytes, HeightOfBytes >>
       /\ pc = "done" =>
              /\ conv.called
              /\ conv.actual_format # None
              /\ conv.decoder # "none"
              /\ conv.status # "none"

\* C18 witness: a file whose header has always_zero bits set, format code 31 and
\* width 0 was handed to a pixel decoder
C18_Witness ==
    /\ pc = "done" /\ path = "analyze" /\ Len(binary_data) >= 4
    /\ AlwaysZeroBits # 0
    /\ header[1] = 31 /\ header[2] = 0 /\ header[3] = 2
    /\ conv.decoder = "true_color"
    /\ conv.status = "img"

-----------------------------------------------------------------------------
(* Properties of the encoders: dimensions beyond the 11-bit fields *)

\* C19: when a declared width or height exceeds 2047 the encoders do not fail:
\* the container is emitted with the whole array as payload, its header parses
\* to the declared format, width mod 2048 and height mod 2048, and the reserved
\* bits 5..9 are 0, so the overflow of one field leaves the others untouched.
C19_SilentTruncation ==
    ( /\ Attempted
      /\ icon_data.format \in KnownTokens
      /\ (icon_data.width > 2047 \/ icon_data.height > 2047) )
    => /\ pc # "failed"
       /\ Len(binary_data) = 4 + Len(icon_data.data)
       /\ binary_data[1] % 32 = TokenValue(icon_data.format)
       /\ WidthOfBytes = icon_data.width % 2048
       /\ HeightOfBytes = icon_data.height % 2048
       /\ AlwaysZeroBits = 0
       /\ binary_data[2] % 4 = 0
       /\ HeaderSeen =>
              header = << TokenValue(icon_data.format),
                          icon_data.width % 2048, icon_data.height % 2048 >>

\* C19 witness: a 4095 x 1024 Indexed4 descriptor encoded by the single-icon
\* path; the parsed header has width 2047 and height 1024
C19_Witness ==
    /\ path = "legacy" /\ HeaderSeen
    /\ icon_data.format = "LV_IMG_CF_INDEXED_4BIT"
    /\ icon_data.width = 4095 /\ icon_data.height = 1024
    /\ header = << 9, 2047, 1024 >>

-----------------------------------------------------------------------------
(* The worked 14 x 14 example *)

White == << 255, 255, 255, 255 >>

Black == << 0, 0, 0, 255 >>

\* a 14 x 14 Indexed1 container with the palette [white, black] has been decoded
WorkedExample ==
    /\ Decoded /\ Declared = 7 /\ Width = 14 /\ Height = 14
    /\ Len(Payload) >= 8
    /\ SubSeq(Payload, 1, 8) = White \o Black

\* row y of the bitmap is 0x1860
RowIs1860(y) ==
    /\ 2 * y + 1 < Len(BitmapOf(8))
    /\ At(BitmapOf(8), 2 * y) = 24
    /\ At(BitmapOf(8), 2 * y + 1) = 96

\* C16, as claimed: in a row 0x1860 of such a container, pixels 2,3 and 9,10
\* decode to the foreground (black) colour and all other pixels of the row to
\* the background (white).
C16_WorkedExampleAsClaimed ==
    WorkedExample
    => \A y \in Range(Height) : RowIs1860(y)
          => /\ conv.status = "img"
             /\ \A x \in Range(Width) :
                    conv.img[y][x] = IF x \in { 2, 3, 9, 10 } THEN Black ELSE White

\* C16, amended: in a row 0x1860 of such a container, pixels 3,4 and 9,10
\* (counted from 0) decode to black and all other pixels of the row to white,
\* the 14 leftmost bits being taken MSB-first.
C16_WorkedExample ==
    WorkedExample
    => \A y \in Range(Height) : RowIs1860(y)
          => /\ conv.status = "img"
             /\ \A x \in Range(Width) :
                    conv.img[y][x] = IF x \in { 3, 4, 9, 10 } THEN Black ELSE White

\* C16 witness: cmd.bin has been decoded; its rows 2 and 11 are 0x1860
C16_Witness ==
    /\ WorkedExample /\ conv.status = "img"
    /\ RowIs1860(2) /\ RowIs1860(11)
    /\ conv.img[2][3] = Black /\ conv.img[2][2] = White

-----------------------------------------------------------------------------
(* Properties of the directory walk and of the single-icon adapter *)

\* the walk is over: the loop ended or an exception left it
WalkOver == walk_status \in { "finished", "raised" }

\* file is an eligible .c file whose extraction fails: no layout, an unknown
\* token, or a descriptor or array that cannot be parsed
ExtractionFails(file) ==
    walk_takes(file) /\ process_single_file(file).status \in { "failed", "raised" }

\* file is an eligible .c file that process_single_file converts when it is
\* handed that file
Convertible(file) ==
    walk_takes(file) /\ process_single_file(file).status = "written"

\* C14, as claimed: when a directory is converted, a file whose extraction fails
\* does not stop the run: every later eligible .c file of the walk is still
\* processed and gets its .bin written.
C14_BatchIsolation ==
    WalkOver
    => \A i \in 1 .. Len(walk_files), j \in 1 .. Len(walk_files) :
           (i < j /\ ExtractionFails(walk_files[i]) /\ Convertible(walk_files[j]))
           => /\ j <= Len(results)
              /\ results[j].status = "written"
              /\ results[j].bins # << >>

\* C20: for a single-icon file whose .data_size is a sizeof(...) expression, the
\* data_size reported equals the number of bytes decoded from the array
\* literal, which is the length of the payload placed in the container.
C20_SizeofDataSize ==
    \A i \in 1 .. Len(results) :
        ( /\ results[i].status = "written" /\ results[i].layout = "legacy"
          /\ walk_files[i].img_data_size.found
          /\ startswith(walk_files[i].img_data_size.group, sizeof_prefix) )
        => /\ results[i].data_size = Len(results[i].c_array)
           /\ Len(results[i].bins) = 1
           /\ results[i].data_size = Len(results[i].bins[1]) - 4
           /\ From(results[i].bins[1], 4) = results[i].c_array

\* C20 witness: a file with .data_size = sizeof(cmd_map) and a three-byte array
\* was converted after a file with .data_size = 28 that reported 28
C20_Witness ==
    /\ Len(results) = 2
    /\ walk_files[1] = LiteralFile /\ results[1].data_size = 28
    /\ walk_files[2] = SizeofFile3
    /\ results[2].status = "written"
    /\ results[2].data_size = 3
    /\ results[2].c_array = << 0, 255, 27 >>

-----------------------------------------------------------------------------
(* Properties of the emitted container: size against its own header *)

\* the minimum payload size implied by a header (cf, w, h): palette bytes of the
\* format plus the packed bitmap bytes of w x h pixels
HeaderImpliedSize(cf, w, h) ==
    CASE cf = 7  -> 8 + (w * h + 7) \div 8
      [] cf = 8  -> 16 + (w * h * 2 + 7) \div 8
      [] cf = 9  -> 64 + (w * h * 4 + 7) \div 8
      [] cf = 10 -> 1024 + w * h
      [] cf = 4  -> w * h * 2
      [] cf = 5  -> w * h * 4
      [] OTHER   -> 0

\* C21, as claimed: every container emitted by the encoders has a payload at
\* least as long as the minimum size implied by its own header.
C21_ContainerSizeInvariant ==
    (Encoded /\ Len(binary_data) >= 4)
    => Len(Payload) >= HeaderImpliedSize(binary_data[1] % 32, WidthOfBytes, HeightOfBytes)

-----------------------------------------------------------------------------
(* Properties of the decoder: 4-bit and wide 1-bit images *)

\* C24, as claimed: in the 4-bit decoder the palette index of pixel (x,y) is
\* nibble number y*width + x of the bitmap region, nibbles taken
\* most-significant-first within each byte (even pixel = high nibble).
C24_NibbleOrderMsbFirst ==
    (Decoded /\ conv.decoder = "indexed_4bit" /\ conv.status = "img")
    => \A y \in Range(Height), x \in Range(Width) :
           LET k == y * Width + x
               byte == At(BitmapOf(64), k \div 2)
           IN  conv.img[y][x] =
                   EntryAsRGBA(IF k % 2 = 0 THEN byte \div 16 ELSE byte % 16)

\* the Indexed1 decoder ran on a payload with a complete palette and at least
\* two bitmap bytes, for an image of at least one row
WideCase ==
    /\ Decoded /\ conv.decoder = "indexed_1bit"
    /\ Height >= 1
    /\ Len(Payload) >= 8 + 2

C28_Truncated4BitFails ==
    ( /\ Decoded /\ conv.decoder = "indexed_4bit"
      /\ Len(Payload) >= 64
      /\ Len(BitmapOf(64)) < (Width * Height + 1) \div 2 )
    => /\ conv.called
       /\ ~ conv.ok
       /\ conv.status = "raise"
       /\ conv.img = NoImg

\* C28 witness: a 2 x 2 Indexed4 container with one of its two bitmap bytes
C28_Witness ==
    /\ Decoded /\ conv.decoder = "indexed_4bit"
    /\ Width = 2 /\ Height = 2
    /\ Len(Payload) = 65
    /\ conv.status = "raise" /\ ~ conv.ok

-----------------------------------------------------------------------------
(* Properties of the RGB565 pixel decoding *)

\* the true-colour decoder produced a raster in RGB565 mode
RGB565Decoded ==
    /\ Decoded /\ conv.decoder = "true_color"
    /\ conv.status = "img" /\ conv.mode = "RGB565"

\* the pixels of the raster that have both bytes of their word in the payload
FullPixels ==
    { k \in Range(Width * Height) : 2 * k + 1 < Len(Payload) }

\* the little-endian pixel word of pixel k
PixelWord(k) == At(Payload, 2 * k) + 256 * At(Payload, 2 * k + 1)

\* the decoded colour of pixel k
PixelColour(k) == conv.img[k \div Width][k % Width]

\* C22: in every RGB565 branch of the TrueColor decoder the pixel word 0xFFFF
\* decodes to (255,255,255) and the pixel word 0x0000 to (0,0,0).
C22_FullScaleValues ==
    RGB565Decoded
    => \A k \in FullPixels :
           /\ PixelWord(k) = 65535 => PixelColour(k) = << 255, 255, 255 >>
           /\ PixelWord(k) = 0 => PixelColour(k) = << 0, 0, 0 >>

\* C22 witness: the word 0xFFFF was decoded to white by the last branch, which
\* ran because the second pixel of the 2 x 1 image is missing
C22_Witness ==
    /\ RGB565Decoded /\ Width = 2 /\ Height = 1
    /\ Payload = << 255, 255 >>
    /\ conv.img[0][0] = << 255, 255, 255 >>
    /\ conv.img[0][1] = << 0, 0, 0 >>

\* the components of a pixel word: red in bits 11..15, green in bits 5..10,
\* blue in bits 0..4
Red5(p) == p \div 2048

Green6(p) == (p \div 32) % 64

Blue5(p) == p % 32

\* a component of the given number of bits expanded as the claim writes it:
\* value = c << (8-bits), then value |= value >> (8-bits)
ExpandAsClaimed(c, bits) ==
    LET value == c * Pow2(8 - bits)
    IN  BitOr(value, value \div Pow2(8 - bits))

\* the expansion that fills the low 8-bits bits with the top bits of the
\* component: value = c << (8-bits), then value |= value >> bits
ExpandTopBits(c, bits) ==
    LET value == c * Pow2(8 - bits)
    IN  value + value \div Pow2(bits)

\* C25, as claimed: every component is expanded as value = c << (8-bits)
\* followed by value |= value >> (8-bits), for every pixel word.
C25_ReplicationAsClaimed ==
    RGB565Decoded
    => \A k \in FullPixels :
           PixelColour(k) = << ExpandAsClaimed(Red5(PixelWord(k)), 5),
                               ExpandAsClaimed(Green6(PixelWord(k)), 6),
                               ExpandAsClaimed(Blue5(PixelWord(k)), 5) >>

\* C25, amended: every component c of width bits (5 for red and blue, 6 for
\* green) is expanded as value = c << (8-bits) followed by
\* value |= value >> bits, for every one of the 65536 pixel words.
C25_BitReplication ==
    RGB565Decoded
    => \A k \in FullPixels :
           PixelColour(k) = << ExpandTopBits(Red5(PixelWord(k)), 5),
                               ExpandTopBits(Green6(PixelWord(k)), 6),
                               ExpandTopBits(Blue5(PixelWord(k)), 5) >>

\* C25 witness: the word 0x0821 (each component 1) was decoded to (8,4,8)
C25_Witness ==
    /\ RGB565Decoded /\ Width = 1 /\ Height = 1
    /\ Payload = << 33, 8 >>
    /\ conv.img[0][0] = << 8, 4, 8 >>

-----------------------------------------------------------------------------
(* Properties of process_single_file: layouts, binaries and PNG conversions *)

\* the files of the walk that process_single_file has been called on
Processed == { i \in 1 .. Len(results) : walk_takes(walk_files[i]) }

\* the icons extracted from file i of the walk by the multi-icon layout
IconsOf(i) == extract_zmk_icons_from_file(walk_files[i].arrays, walk_files[i].descriptors)

\* the icons of file i that the program has to write: the extracted icons whose
\* array elements are bytes, or the one icon of a single-icon result
IconsToWrite(i) ==
    IF IconsOf(i) # << >>
    THEN { k \in 1 .. Len(IconsOf(i)) : bytearray_ok(IconsOf(i)[k].data) }
    ELSE IF results[i].status = "written" THEN { 1 } ELSE { }

\* the positions in the log of the events of the given kinds for icon k of file i
Positions(i, k, kinds) ==
    { n \in 1 .. Len(events) :
        events[n].file = i /\ events[n].icon = k /\ events[n].kind \in kinds }

PngKinds == { "png", "png_4x" }

\* every PNG conversion of the log comes after the .bin of its icon was written
BinBeforePng ==
    \A n \in 1 .. Len(events) :
        events[n].kind \in PngKinds
        => \E b \in Positions(events[n].file, events[n].icon, { "bin" }) : b < n

\* PNG conversions are attempted only when create_png is set, and then for
\* every binary written
PngOnlyIfRequested ==
    \A n \in 1 .. Len(events) :
        IF events[n].kind = "bin"
        THEN create_png <=> /\ Positions(events[n].file, events[n].icon, { "png" }) # { }
                            /\ Positions(events[n].file, events[n].icon, { "png_4x" }) # { }
        ELSE create_png

\* C23, as claimed: for every icon extracted from a source file
\* process_single_file writes the icon's .bin, with or without the PNG flag and
\* before any PNG conversion of that icon; PNG conversion is attempted only when
\* the flag is set, and a failed conversion does not prevent the .bin of that
\* icon or of later icons of the file.
C23_BinaryFirstPngOptional ==
    /\ \A i \in Processed : \A k \in IconsToWrite(i) : Positions(i, k, { "bin" }) # { }
    /\ BinBeforePng
    /\ PngOnlyIfRequested

\* the descriptors of file i that the multi-icon layout pairs with an array
Paired(i) ==
    LET file == walk_files[i]
    IN  { d \in 1 .. Len(file.descriptors) :
            /\ file.descriptors[d].width_match.found
            /\ file.descriptors[d].height_match.found
            /\ file.descriptors[d].cf_match.found
            /\ file.descriptors[d].data_match.found
            /\ \E a \in 1 .. Len(file.arrays) :
                   /\ file.arrays[a].hex_values # << >>
                   /\ file.arrays[a].name =
                          array_name_of(file.descriptors[d].data_match.group) }

\* C26: the multi-icon layout is tried first.  If it pairs at least one
\* descriptor with an array, the result is the paired icons only (descriptors
\* without an array are dropped, and nothing of the single-icon layout is in the
\* result); the single-icon parsing is the result only when no icon is paired.
\* For the file with both layouts the binaries are those of ctrl (2 x 1) and
\* meta (1 x 2).
C26_LayoutPrecedence ==
    \A i \in Processed :
        LET r == results[i]
        IN  /\ Paired(i) # { }
               => /\ r.layout = "zmk"
                  /\ r.data_size = None /\ r.c_array = << >>
                  /\ Len(r.bins) <= Cardinality(Paired(i))
                  /\ r.status = "written"
                     => Len(r.bins) =
                            Cardinality({ walk_files[i].descriptors[d].name : d \in Paired(i) })
            /\ Paired(i) = { }
               => /\ r.layout \in { "legacy", "none" }
                  /\ r = single_icon_from_text(walk_files[i])
            /\ walk_files[i] = MixedZmkFile
               => r.bins = << << 7, 8, 32, 0, 228, 27 >>, << 7, 4, 64, 0, 228, 27 >> >>
            /\ walk_files[i] = UnpairedZmkFile
               => r.bins = << << 7, 8, 32, 0, 24, 96 >> >>

\* C26 witness: a walk over the file with both layouts, which gave the two
\* paired icons, and the file with unpaired descriptors only, which gave the
\* single-icon binary
C26_Witness ==
    /\ Len(results) = 2
    /\ walk_files[1] = MixedZmkFile /\ walk_files[2] = UnpairedZmkFile
    /\ results[1].layout = "zmk" /\ Len(results[1].bins) = 2
    /\ results[2].layout = "legacy" /\ Len(results[2].bins) = 1

=============================================================================
